---- MODULE Spec2Model ----
(***************************************************************************)
(* Model of src/google_drive_analysis/drive_analysis.py: one run of main() *)
(* (mount step, existence check, load_dataframe, analyse_dataframe) as a   *)
(* sequential state machine over the data file, the output directory and   *)
(* the console.  The pandas calls are modelled by what they compute on the *)
(* selected column: describe() by count / mean / min / max (std and the    *)
(* quartiles are not modelled), mode() by the sorted series of the most    *)
(* frequent non-missing values.                                            *)
(***************************************************************************)
EXTENDS Integers, Sequences, FiniteSets, TLC

VARIABLES pc, args, pathExists, content, fs, out, df, summary, mode,
          written, dirCreated, error

vars == <<pc, args, pathExists, content, fs, out, df, summary, mode,
          written, dirCreated, error>>

----------------------------------------------------------------------------
(* Inputs of a run, drawn from bounded sets *)

MaxRows == 3

(* Cells of a column: a missing entry, or a number *)
NaN == <<>>
Num(v) == <<v>>
Values == {1, 2}
Cells == {NaN} \cup {Num(v) : v \in Values}

Columns == UNION {[1..n -> Cells] : n \in 0..MaxRows}

AllMissing(n) == [i \in 1..n |-> NaN]

(* Tables: column "a" holds the data and column "b" is entirely missing,   *)
(* or the other way round; all columns of a table have the same length.    *)
Tables ==
    {[a |-> c, b |-> AllMissing(Len(c))] : c \in Columns}
        \cup {[a |-> AllMissing(Len(c)), b |-> c] : c \in Columns}

Flip(t) == [a |-> t.b, b |-> t.a]

(* The data file read as a workbook: two sheets with different content *)
Workbook(t) == <<[name |-> "Sheet1", table |-> t],
                 [name |-> "Sheet2", table |-> Flip(t)]>>

Suffixes == {".csv", ".xls", ".XLSX"}
NoSheet == "<None>"
SheetArgs == {NoSheet, "Sheet2", "Nope"}
ColumnArgs == {"a", "Sheet2"}

----------------------------------------------------------------------------
(* Artifact names *)

SummaryName == "summary_statistics.txt"
HistogramNameWrong == "boxplot.png"
HistogramName == "histogram.png"
BoxplotNameWrong == "histogram.png"
BoxplotName == "boxplot.png"
OtherName == "notes.txt"

Artifacts == {"summary_statistics.txt", "histogram.png", "boxplot.png"}
FileNames == {"summary_statistics.txt", "histogram.png", "boxplot.png", OtherName}
ArtifactOrder == <<"summary_statistics.txt", "histogram.png", "boxplot.png">>

Bins == 20

Absent == [kind |-> "absent"]
OldFile == [kind |-> "old"]
Truncated == [kind |-> "truncated"]

NoDir == [dir |-> FALSE, files |-> [f \in FileNames |-> Absent]]
OldDir == [dir |-> TRUE, files |-> [f \in FileNames |-> OldFile]]

----------------------------------------------------------------------------
(* str.lower() on the suffixes of the model *)
Lower(s) ==
    CASE s = ".XLSX" -> ".xlsx"
      [] s = ".XLS" -> ".xls"
      [] s = ".CSV" -> ".csv"
      [] OTHER -> s

IsExcel(s) == Lower(s) \in {".xls", ".xlsx"}

----------------------------------------------------------------------------
(* pandas on one column *)

NotNa(col) == SelectSeq(col, LAMBDA c : c # NaN)

CountAll(col) == Len(col)
Count(col) == Len(NotNa(col))

RECURSIVE SumOf(_)
SumOf(s) == IF s = <<>> THEN 0 ELSE Head(s)[1] + SumOf(Tail(s))

RECURSIVE MinOf(_)
MinOf(s) ==
    IF Len(s) = 1 THEN Head(s)
    ELSE LET m == MinOf(Tail(s)) IN IF Head(s)[1] <= m[1] THEN Head(s) ELSE m

RECURSIVE MaxOf(_)
MaxOf(s) ==
    IF Len(s) = 1 THEN Head(s)
    ELSE LET m == MaxOf(Tail(s)) IN IF Head(s)[1] >= m[1] THEN Head(s) ELSE m

(* Series.describe(): missing entries are skipped *)
Describe(col) ==
    LET s == NotNa(col) IN
    [count |-> Count(col),
     mean  |-> IF s = <<>> THEN NaN ELSE <<SumOf(s), Len(s)>>,
     min   |-> IF s = <<>> THEN NaN ELSE MinOf(s),
     max   |-> IF s = <<>> THEN NaN ELSE MaxOf(s)]

Occurrences(s, c) == Cardinality({i \in DOMAIN s : s[i] = c})

(* distinct values in order of first occurrence *)
RECURSIVE Unique(_)
Unique(s) ==
    IF s = <<>> THEN <<>>
    ELSE LET h == Head(s) IN <<h>> \o Unique(SelectSeq(Tail(s), LAMBDA c : c # h))

RECURSIVE Insert(_, _)
Insert(c, s) ==
    IF s = <<>> THEN <<c>>
    ELSE IF c[1] <= Head(s)[1] THEN <<c>> \o s
    ELSE <<Head(s)>> \o Insert(c, Tail(s))

RECURSIVE Sort(_)
Sort(s) == IF s = <<>> THEN <<>> ELSE Insert(Head(s), Sort(Tail(s)))

(* the most frequent non-missing values, in order of first occurrence *)
MostFrequent(col) ==
    LET s == NotNa(col)
        u == Unique(s)
    IN SelectSeq(u, LAMBDA c : \A d \in {u[i] : i \in DOMAIN u} :
                                  Occurrences(s, d) <= Occurrences(s, c))

ModeSeriesUnsorted(col) == MostFrequent(col)
(* Series.mode(): dropna, then the modal values sorted ascending *)
ModeSeries(col) == Sort(MostFrequent(col))

NoneMode == [kind |-> "None", v |-> NaN]
IndexError == [kind |-> "IndexError", v |-> NaN]

(* .iloc[0] raises IndexError on an empty series *)
Iloc0(s) == IF s = <<>> THEN IndexError ELSE [kind |-> "value", v |-> s[1]]

ModeOfUnguarded(col) == Iloc0(ModeSeries(col))
(* line 69: mode().iloc[0] if not mode().empty else None *)
ModeOf(col) == IF ModeSeries(col) # <<>> THEN Iloc0(ModeSeries(col)) ELSE NoneMode

(* DataFrame.describe() / DataFrame.mode().iloc[0], column by column *)
FrameDescribe(t) == [c \in DOMAIN t |-> Describe(t[c])]

FrameMode(t) ==
    IF \A c \in DOMAIN t : ModeSeries(t[c]) = <<>> THEN NoneMode
    ELSE [kind |-> "row",
          v |-> [c \in DOMAIN t |->
                    IF ModeSeries(t[c]) = <<>> THEN NaN ELSE ModeSeries(t[c])[1]]]

----------------------------------------------------------------------------
(* pandas readers *)

NoFrame == [kind |-> "none"]
Frame(t) == [kind |-> "frame", table |-> t]

SheetNames(wb) == {wb[i].name : i \in DOMAIN wb}
SheetNamed(wb, n) == (CHOOSE i \in DOMAIN wb : wb[i].name = n)

(* pd.read_excel(path, sheet_name=sheet): sheet_name=None reads every sheet *)
(* and returns them as a dict keyed by sheet name                          *)
ReadExcel(t, sheet) ==
    LET wb == Workbook(t) IN
    IF sheet = NoSheet THEN [kind |-> "dict", sheets |-> wb]
    ELSE IF sheet \in SheetNames(wb) THEN Frame(wb[SheetNamed(wb, sheet)].table)
    ELSE [kind |-> "ValueError"]

(* pd.read_csv(path) *)
ReadCsv(t) == Frame(t)

(* load_dataframe *)
Load(suffix, sheet, t) == IF IsExcel(suffix) THEN ReadExcel(t, sheet) ELSE ReadCsv(t)

SelectedLenient(d, c) ==
    IF d.kind = "frame"
    THEN [kind |-> "series", col |-> IF c \in DOMAIN d.table THEN d.table[c] ELSE <<>>]
    ELSE [kind |-> "KeyError"]
(* df[column]: a column of a DataFrame, or an entry of the dict of sheets *)
Selected(d, c) ==
    IF d.kind = "frame"
    THEN IF c \in DOMAIN d.table THEN [kind |-> "series", col |-> d.table[c]]
         ELSE [kind |-> "KeyError"]
    ELSE IF c \in SheetNames(d.sheets)
         THEN [kind |-> "frame", table |-> d.sheets[SheetNamed(d.sheets, c)].table]
         ELSE [kind |-> "KeyError"]

----------------------------------------------------------------------------
(* The run *)

NoSummary == [kind |-> "none"]
NoError == [at |-> "", kind |-> ""]
Unset == [kind |-> "unset", v |-> NaN]

Init ==
    /\ pc = "mount"
    /\ args \in [suffix : Suffixes, sheet : SheetArgs, column : ColumnArgs,
                 skip_mount : BOOLEAN]
    /\ pathExists \in BOOLEAN
    /\ content \in Tables
    /\ fs \in {NoDir, OldDir}
    /\ out = <<>>
    /\ df = NoFrame
    /\ summary = NoSummary
    /\ mode = Unset
    /\ written = <<>>
    /\ dirCreated = FALSE
    /\ error = NoError

Fail(at, kind) == pc' = "failed" /\ error' = [at |-> at, kind |-> kind]

Say(msg) == out' = Append(out, msg)

PutFile(name, data) == [fs EXCEPT !.files[name] = data]

(* main, line 134: --skip-mount *)
SkipMount ==
    /\ pc = "mount"
    /\ args.skip_mount
    /\ pc' = "check"
    /\ UNCHANGED <<args, pathExists, content, fs, out, df, summary, mode,
                   written, dirCreated, error>>

(* mount_google_drive: google.colab cannot be imported *)
MountUnavailable ==
    /\ pc = "mount"
    /\ ~args.skip_mount
    /\ Say("google.colab is not available; skipping drive.mount().")
    /\ pc' = "check"
    /\ UNCHANGED <<args, pathExists, content, fs, df, summary, mode,
                   written, dirCreated, error>>

(* mount_google_drive: the mount point does not exist *)
MountPointMissing ==
    /\ pc = "mount"
    /\ ~args.skip_mount
    /\ Say("Mount point does not exist.")
    /\ pc' = "check"
    /\ UNCHANGED <<args, pathExists, content, fs, df, summary, mode,
                   written, dirCreated, error>>

(* mount_google_drive: drive.mount() returns; the data path may now exist *)
MountDone ==
    /\ pc = "mount"
    /\ ~args.skip_mount
    /\ Say("Mounting Google Drive...")
    /\ pathExists' \in BOOLEAN
    /\ pc' = "check"
    /\ UNCHANGED <<args, content, fs, df, summary, mode, written, dirCreated, error>>

(* mount_google_drive: drive.mount() raises; nothing catches it *)
MountRaises ==
    /\ pc = "mount"
    /\ ~args.skip_mount
    /\ Say("Mounting Google Drive...")
    /\ Fail("mount", "MountError")
    /\ UNCHANGED <<args, pathExists, content, fs, df, summary, mode,
                   written, dirCreated>>

MountGoogleDrive ==
    MountUnavailable \/ MountPointMissing \/ MountDone \/ MountRaises

CheckPathStops ==
    /\ pc = "check"
    /\ IF pathExists
       THEN pc' = "load" /\ UNCHANGED <<out, error>>
       ELSE Say("Warning: data path does not exist") /\ Fail("check", "FileNotFound")
    /\ UNCHANGED <<args, pathExists, content, fs, df, summary, mode,
                   written, dirCreated>>
(* main, lines 137-142: warn when the data path does not exist, and go on *)
CheckPath ==
    /\ pc = "check"
    /\ IF pathExists
       THEN UNCHANGED out
       ELSE Say("Warning: data path does not exist")
    /\ pc' = "load"
    /\ UNCHANGED <<args, pathExists, content, fs, df, summary, mode,
                   written, dirCreated, error>>

(* main, line 144: load_dataframe(data_path, sheet_name=args.sheet) *)
LoadDataframe ==
    /\ pc = "load"
    /\ \E parsed \in BOOLEAN :
         LET r == Load(args.suffix, args.sheet, content) IN
         IF ~pathExists THEN Fail("load", "FileNotFound") /\ UNCHANGED df
         ELSE IF ~parsed THEN Fail("load", "ParseError") /\ UNCHANGED df
         ELSE IF r.kind = "ValueError" THEN Fail("load", "ValueError") /\ UNCHANGED df
         ELSE df' = r /\ pc' = "mkdir" /\ UNCHANGED error
    /\ UNCHANGED <<args, pathExists, content, fs, out, summary, mode,
                   written, dirCreated>>

(* analyse_dataframe, line 66: output_dir.mkdir(parents=True, exist_ok=True) *)
MakeOutputDir ==
    /\ pc = "mkdir"
    /\ \E ok \in BOOLEAN :
         IF ok
         THEN /\ fs' = [fs EXCEPT !.dir = TRUE]
              /\ dirCreated' = ~fs.dir
              /\ pc' = "stats"
              /\ UNCHANGED error
         ELSE Fail("mkdir", "IOError") /\ UNCHANGED <<fs, dirCreated>>
    /\ UNCHANGED <<args, pathExists, content, out, df, summary, mode, written>>

(* analyse_dataframe, lines 68-69: describe() and mode() of df[column] *)
ComputeStats ==
    /\ pc = "stats"
    /\ LET s == Selected(df, args.column) IN
       IF s.kind = "KeyError"
       THEN Fail("stats", "KeyError") /\ UNCHANGED <<summary, mode>>
       ELSE IF s.kind = "frame"
       THEN /\ summary' = [kind |-> "frame", stats |-> FrameDescribe(s.table)]
            /\ mode' = FrameMode(s.table)
            /\ pc' = "write_summary"
            /\ UNCHANGED error
       ELSE IF ModeOf(s.col).kind = "IndexError"
       THEN Fail("stats", "IndexError") /\ UNCHANGED <<summary, mode>>
       ELSE /\ summary' = [kind |-> "series", stats |-> Describe(s.col)]
            /\ mode' = ModeOf(s.col)
            /\ pc' = "write_summary"
            /\ UNCHANGED error
    /\ UNCHANGED <<args, pathExists, content, fs, out, df, written, dirCreated>>

(* analyse_dataframe, lines 71-76: the text summary *)
WriteSummary ==
    /\ pc = "write_summary"
    /\ \E outcome \in {"ok", "open_failed", "write_failed"} :
         CASE outcome = "ok" ->
                /\ fs' = PutFile(SummaryName,
                                 [kind |-> "summary", header |-> "Summary statistics",
                                  stats |-> summary, mode |-> mode])
                /\ written' = Append(written, SummaryName)
                /\ pc' = "histogram"
                /\ UNCHANGED error
           [] outcome = "open_failed" ->
                Fail("write_summary", "IOError") /\ UNCHANGED <<fs, written>>
           [] outcome = "write_failed" ->
                /\ fs' = PutFile(SummaryName, Truncated)
                /\ written' = Append(written, SummaryName)
                /\ Fail("write_summary", "IOError")
    /\ UNCHANGED <<args, pathExists, content, out, df, summary, mode, dirCreated>>

(* a figure is rendered and saved with plt.savefig *)
SavePlot(at, name, plot, next) ==
    \E outcome \in {"ok", "render_error", "open_failed", "write_failed"} :
      CASE outcome = "ok" ->
             /\ fs' = PutFile(name, [kind |-> "png", plot |-> plot,
                                     column |-> args.column])
             /\ written' = Append(written, name)
             /\ pc' = next
             /\ UNCHANGED error
        [] outcome = "render_error" ->
             Fail(at, "RenderError") /\ UNCHANGED <<fs, written>>
        [] outcome = "open_failed" ->
             Fail(at, "IOError") /\ UNCHANGED <<fs, written>>
        [] outcome = "write_failed" ->
             /\ fs' = PutFile(name, Truncated)
             /\ written' = Append(written, name)
             /\ Fail(at, "IOError")

(* analyse_dataframe, lines 78-85: df[column].hist(bins=20), savefig *)
Histogram ==
    /\ pc = "histogram"
    /\ SavePlot("histogram", HistogramName, [type |-> "histogram", bins |-> Bins],
                "boxplot")
    /\ UNCHANGED <<args, pathExists, content, out, df, summary, mode, dirCreated>>

BoxplotSwallows ==
    /\ pc = "boxplot"
    /\ IF df.kind = "dict"
       THEN Fail("boxplot", "AttributeError") /\ UNCHANGED <<fs, written>>
       ELSE \E ok \in BOOLEAN :
              /\ IF ok
                 THEN /\ fs' = PutFile(BoxplotName, [kind |-> "png",
                                         plot |-> [type |-> "boxplot"],
                                         column |-> args.column])
                      /\ written' = Append(written, BoxplotName)
                 ELSE UNCHANGED <<fs, written>>
              /\ pc' = "confirm"
              /\ UNCHANGED error
    /\ UNCHANGED <<args, pathExists, content, out, df, summary, mode, dirCreated>>
(* analyse_dataframe, lines 87-93: df.boxplot(column=column), savefig;     *)
(* a dict has no boxplot attribute                                         *)
Boxplot ==
    /\ pc = "boxplot"
    /\ IF df.kind = "dict"
       THEN Fail("boxplot", "AttributeError") /\ UNCHANGED <<fs, written>>
       ELSE SavePlot("boxplot", BoxplotName, [type |-> "boxplot"], "confirm")
    /\ UNCHANGED <<args, pathExists, content, out, df, summary, mode, dirCreated>>

Confirmations == {"Summary saved", "Histogram saved", "Box plot saved"}

(* analyse_dataframe, lines 95-97: the three confirmations; main returns *)
Confirm ==
    /\ pc = "confirm"
    /\ out' = out \o <<"Summary saved", "Histogram saved", "Box plot saved">>
    /\ pc' = "done"
    /\ UNCHANGED <<args, pathExists, content, fs, df, summary, mode,
                   written, dirCreated, error>>

Next ==
    \/ SkipMount
    \/ MountGoogleDrive
    \/ CheckPath
    \/ LoadDataframe
    \/ MakeOutputDir
    \/ ComputeStats
    \/ WriteSummary
    \/ Histogram
    \/ Boxplot
    \/ Confirm

Spec == Init /\ [][Next]_vars

----------------------------------------------------------------------------
(* Vocabulary of the properties *)

Said(msg) == \E i \in DOMAIN out : out[i] = msg
Warned == Said("Warning: data path does not exist")
Confirmed == \E i \in DOMAIN out : out[i] \in Confirmations

FailedAt(step) == pc = "failed" /\ error.at = step

(* the existence check of main has been passed *)
PastCheck == pc \notin {"mount", "check"} /\ ~FailedAt("mount")

(* lines 68-69 of analyse_dataframe have been executed *)
StatsDone ==
    \/ pc \in {"write_summary", "histogram", "boxplot", "confirm", "done"}
    \/ pc = "failed" /\ error.at \in {"stats", "write_summary", "histogram", "boxplot"}

(* analyse_dataframe has returned normally *)
AnalyseReturned == pc \in {"confirm", "done"}

ColumnMissing == df.kind = "frame" /\ args.column \notin DOMAIN df.table
ColumnPresent == df.kind = "frame" /\ args.column \in DOMAIN df.table
TheColumn == df.table[args.column]

Untouched(f) == fs.files[f].kind \in {"absent", "old"}
Complete(f) == fs.files[f].kind \in {"summary", "png"}

Missing(col) == {i \in DOMAIN col : col[i] = NaN}
Present(col) == {col[i] : i \in DOMAIN col \ Missing(col)}
IsModal(col, c) ==
    c \in Present(col) /\ \A d \in Present(col) : Occurrences(col, d) <= Occurrences(col, c)
StrictWinner(col, c) ==
    c \in Present(col) /\ \A d \in Present(col) \ {c} : Occurrences(col, d) < Occurrences(col, c)
FirstModal(col) ==
    col[CHOOSE i \in DOMAIN col :
          /\ IsModal(col, col[i])
          /\ \A j \in DOMAIN col : IsModal(col, col[j]) => i <= j]

----------------------------------------------------------------------------
(* C1 (as stated): when the column is not a column of the table, the call   *)
(* fails at the column lookup with KeyError, none of the three artifacts    *)
(* has been written, and nothing has been created on the filesystem.        *)
C1_NothingCreated ==
    (ColumnMissing /\ StatsDone) =>
        /\ FailedAt("stats") /\ error.kind = "KeyError"
        /\ written = <<>>
        /\ \A f \in Artifacts : Untouched(f)
        /\ ~dirCreated

(* C1 (amended): when the column is not a column of the table, the call     *)
(* fails at the column lookup with KeyError and none of the three artifacts *)
(* has been written; the output directory exists by then, created by the    *)
(* call when it was absent.                                                 *)
C1_NoArtifactsButDirectory ==
    (ColumnMissing /\ StatsDone) =>
        /\ FailedAt("stats") /\ error.kind = "KeyError"
        /\ written = <<>>
        /\ \A f \in FileNames : Untouched(f)
        /\ fs.dir

C1_Witness ==
    ColumnMissing /\ FailedAt("stats") /\ error.kind = "KeyError" /\ dirCreated

(* C2 (as stated): the mode is a most frequent non-missing value of the     *)
(* column, and among equally frequent values the one that occurs first.     *)
C2_ModeFirstEncountered ==
    (summary.kind = "series" /\ Present(TheColumn) # {}) =>
        /\ mode.kind = "value"
        /\ IsModal(TheColumn, mode.v)
        /\ mode.v = FirstModal(TheColumn)

(* C2 (amended): the mode is a most frequent non-missing value of the       *)
(* column; a value that occurs strictly more often than any other is the    *)
(* mode whatever the row order, and among equally frequent values the mode  *)
(* is the smallest one.                                                     *)
C2_ModeSmallestModal ==
    (summary.kind = "series" /\ Present(TheColumn) # {}) =>
        /\ mode.kind = "value"
        /\ IsModal(TheColumn, mode.v)
        /\ \A c \in Present(TheColumn) : StrictWinner(TheColumn, c) => mode.v = c
        /\ \A c \in Present(TheColumn) : IsModal(TheColumn, c) => mode.v[1] <= c[1]

C2_Witness ==
    /\ summary.kind = "series"
    /\ Present(TheColumn) # {}
    /\ mode.kind = "value"
    /\ mode.v # FirstModal(TheColumn)

(* C3: load_dataframe returns one table: for a spreadsheet suffix (.xls or  *)
(* .xlsx in any letter case) the named sheet, or the first sheet when no    *)
(* sheet is given; for any other suffix the comma-separated content.        *)
C3_LoadReturnsOneTable ==
    (df.kind # "none") =>
        /\ df.kind = "frame"
        /\ df.table =
             IF args.suffix \in {".xls", ".XLS", ".xlsx", ".XLSX"}
             THEN IF args.sheet = NoSheet THEN Workbook(content)[1].table
                  ELSE Workbook(content)[SheetNamed(Workbook(content), args.sheet)].table
             ELSE content

(* C4: in a run without --skip-mount no outcome of the mount step ends the  *)
(* run: the run never fails in the mount step.                              *)
C4_MountNeverFatal == ~args.skip_mount => ~FailedAt("mount")

(* C5: a confirmation is on the console only when the run has finished and  *)
(* the three artifacts have all been written completely, in this run; a     *)
(* failed run has an error recorded and no confirmation on the console.     *)
C5_NoPartialSuccess ==
    /\ Confirmed =>
         /\ pc = "done"
         /\ written = ArtifactOrder
         /\ \A f \in Artifacts : Complete(f)
    /\ pc = "failed" => ~Confirmed
    /\ (pc = "failed") = (error # NoError)

C5_Witness == pc = "done" /\ Confirmed /\ written = ArtifactOrder

(* C6: when analyse_dataframe returns, the output directory exists and      *)
(* holds the summary, the histogram and the box plot at their stable names, *)
(* each written completely by this call (an older file at the name is       *)
(* replaced), and no other file has been touched.                           *)
C6_ThreeArtifacts ==
    AnalyseReturned =>
        /\ fs.dir
        /\ written = ArtifactOrder
        /\ fs.files["summary_statistics.txt"].kind = "summary"
        /\ fs.files["summary_statistics.txt"].header = "Summary statistics"
        /\ fs.files["histogram.png"].kind = "png"
        /\ fs.files["histogram.png"].plot.type = "histogram"
        /\ fs.files["boxplot.png"].kind = "png"
        /\ fs.files["boxplot.png"].plot.type = "boxplot"
        /\ Untouched(OtherName)

C6_Witness ==
    /\ pc = "done"
    /\ fs.files[OtherName].kind = "old"
    /\ \A f \in Artifacts : Complete(f)

(* C7: once the existence check has been passed with the data path absent,  *)
(* the warning is on the console, the run is at the Loader or has failed in *)
(* the Loader with FileNotFound, no table was loaded, and neither the       *)
(* output directory nor any artifact has been created.                      *)
C7_MissingPathDefersToLoader ==
    (PastCheck /\ ~pathExists) =>
        /\ Warned
        /\ pc = "load" \/ (FailedAt("load") /\ error.kind = "FileNotFound")
        /\ df.kind = "none"
        /\ ~dirCreated
        /\ written = <<>>
        /\ \A f \in FileNames : Untouched(f)

C7_Witness == FailedAt("load") /\ error.kind = "FileNotFound" /\ Warned /\ ~pathExists

(* C8: for a column with no non-missing value (no rows, or every entry      *)
(* missing) the mode computation does not fail, the mode is None, and the   *)
(* summary that is written carries the mode None.                           *)
C8_EmptyColumnModeNone ==
    (ColumnPresent /\ StatsDone /\ Present(TheColumn) = {}) =>
        /\ ~FailedAt("stats")
        /\ mode.kind = "None"
        /\ fs.files["summary_statistics.txt"].kind = "summary"
             => fs.files["summary_statistics.txt"].mode.kind = "None"

C8_Witness ==
    /\ ColumnPresent
    /\ Len(TheColumn) > 0
    /\ Present(TheColumn) = {}
    /\ fs.files["summary_statistics.txt"].kind = "summary"
    /\ fs.files["summary_statistics.txt"].mode.kind = "None"

(* C9: the count of the summary is the number of non-missing entries of the *)
(* column: the number of rows less the missing ones, so the number of rows  *)
(* when nothing is missing.                                                 *)
C9_CountNonMissing ==
    (summary.kind = "series") =>
        /\ summary.stats.count + Cardinality(Missing(TheColumn)) = Len(TheColumn)
        /\ Missing(TheColumn) = {} => summary.stats.count = Len(TheColumn)

C9_Witness ==
    /\ summary.kind = "series"
    /\ Missing(TheColumn) # {}
    /\ summary.stats.count > 0

(* C10: the artifacts written by the run are, in order, a prefix of         *)
(* summary_statistics.txt, histogram.png, boxplot.png, and they are written *)
(* only once the output directory exists.                                   *)
C10_ArtifactsArePrefix ==
    /\ Len(written) <= Len(ArtifactOrder)
    /\ \A i \in DOMAIN written : written[i] = ArtifactOrder[i]
    /\ written # <<>> => fs.dir
    /\ ~Untouched("histogram.png") => ~Untouched("summary_statistics.txt")
    /\ ~Untouched("boxplot.png") => ~Untouched("histogram.png")

C10_Witness ==
    /\ FailedAt("histogram")
    /\ error.kind = "RenderError"
    /\ written = <<"summary_statistics.txt">>
    /\ Untouched("histogram.png")

====
